---- MODULE Spec2Model ----
(***************************************************************************)
(* Authentication and authorization core of the FastAPI backend:           *)
(* registration, login, the bearer-token request guard, forgot/reset/      *)
(* change password and the permission/role checkers.                       *)
(*                                                                         *)
(* app/core/security.py (token codec, password hashing, strength policy)   *)
(* is not among the repository's source files; the operators that stand    *)
(* for it follow sections 4.1 and 4.2 of the specification.                *)
(***************************************************************************)
EXTENDS Integers, Sequences, FiniteSets, TLC

VARIABLES
    users,      \* the users table: id -> row
    nextId,     \* next value of the users.id sequence
    now,        \* the clock, in token-lifetime units
    minted,     \* tokens clients hold, each with the instant it was minted
                \* and the principal it was minted for
    tasks,      \* register requests suspended between two store calls
    last        \* the most recent request and its externally visible response

vars == <<users, nextId, now, minted, tasks, last>>

(***************************** bounds **************************************)
MaxUsers == 2
MaxTime == 2
MaxTokens == 1
MaxInflight == 2
ACCESS_TOKEN_EXPIRE_MINUTES == 2
PASSWORD_RESET_TOKEN_EXPIRE_MINUTES == 1

(***************************** input domains *******************************)
\* UserRegister.email and .username are plain str (auth/schemas.py), so an
\* email may be all digits and a username may look like an email.
Emails == {"a@x.com", "2"}
Usernames == {"alice", "a@x.com"}
Idents == Emails \cup Usernames \cup {"nobody"}
StrongPasswords == {"Abcdef12!", "TestPass123!"}
Passwords == StrongPasswords \cup {"weak"}

(***************************** seeded RBAC data ****************************)
Roles ==
    (1 :> [name |-> "admin",
           permissions |-> {"create_user", "read_user", "update_user",
                            "delete_user", "manage_roles"}])
    @@ (2 :> [name |-> "user", permissions |-> {"read_user"}])
    @@ (3 :> [name |-> "moderator", permissions |-> {"read_user", "update_user"}])

(***************************** password hashing ****************************)
get_password_hash(plain) == [alg |-> "bcrypt", of |-> plain]

verify_password(plain, digest) == digest.alg = "bcrypt" /\ digest.of = plain

validate_password_strength(plain) ==
    IF plain \in StrongPasswords
    THEN [is_valid |-> TRUE, error_msg |-> ""]
    ELSE [is_valid |-> FALSE, error_msg |-> "Password does not meet strength requirements"]

(***************************** token codec *********************************)
\* str(id) and int(str): the subject of a token travels as a string.
IdStr(id) == ToString(id)

IsIntStr(s) == \E n \in 0..(MaxUsers + 1) : ToString(n) = s

StrInt(s) == CHOOSE n \in 0..(MaxUsers + 1) : ToString(n) = s

NoToken == [sub |-> "", purpose |-> "none", exp |-> 0, sig |-> FALSE]

create_access_token(id, at) ==
    [sub |-> IdStr(id), purpose |-> "access",
     exp |-> at + ACCESS_TOKEN_EXPIRE_MINUTES, sig |-> TRUE]

create_password_reset_token(email, at) ==
    [sub |-> email, purpose |-> "reset",
     exp |-> at + PASSWORD_RESET_TOKEN_EXPIRE_MINUTES, sig |-> TRUE]

\* verify(token, expected_purpose, now): signature, purpose, now < exp.
TokenValid(token, purpose, at) ==
    token.sig /\ token.purpose = purpose /\ at < token.exp

\* payload or None
decode_access_token(token, at) == TokenValid(token, "access", at)

\* email or None
verify_password_reset_token(token, at) == TokenValid(token, "reset", at)

TTL(purpose) ==
    IF purpose = "access" THEN ACCESS_TOKEN_EXPIRE_MINUTES
    ELSE PASSWORD_RESET_TOKEN_EXPIRE_MINUTES

(***************************** the store ***********************************)
get_user_by_id(U, id) ==
    IF id \in DOMAIN U THEN id ELSE 0

get_user_by_email(U, email) ==
    IF \E id \in DOMAIN U : U[id].email = email
    THEN CHOOSE id \in DOMAIN U : U[id].email = email
    ELSE 0

get_user_by_username(U, username) ==
    IF \E id \in DOMAIN U : U[id].username = username
    THEN CHOOSE id \in DOMAIN U : U[id].username = username
    ELSE 0

(***************************** responses ***********************************)
NoMail == <<>>

\* One request's outcome: what the caller sees (status, detail, www = the
\* WWW-Authenticate header, token = the access token returned), and for the
\* record the branch taken, the token presented, whether that token had just
\* been used with success (replay), the principal acted on and the mail
\* sends attempted.
Result(op, status, detail, branch) ==
    [op |-> op, status |-> status, detail |-> detail, www |-> FALSE,
     branch |-> branch, tok |-> NoToken, token |-> NoToken, user |-> 0,
     sent |-> NoMail, replay |-> FALSE]

\* A request between two of its store calls: where it is and what it carries.
Idle == [pc |-> "idle", email |-> "", username |-> "", password |-> "",
         user |-> 0, new_password |-> "", token |-> NoToken]

\* general_exception_handler: anything uncaught
InternalError(op, branch) == Result(op, 500, "Internal server error", branch)

(***************************** request guard *******************************)
Unauthenticated(detail) ==
    [status |-> 401, detail |-> detail, www |-> TRUE, user |-> 0]

\* The guard reading the token's claims without the payload-is-None test.
get_current_user_unverified(U, token, at) ==
    IF token.sub = ""
    THEN Unauthenticated("Could not validate credentials")
    ELSE IF ~IsIntStr(token.sub)
    THEN Unauthenticated("Could not validate credentials")
    ELSE IF get_user_by_id(U, StrInt(token.sub)) = 0
    THEN Unauthenticated("User not found")
    ELSE [status |-> 200, detail |-> "", www |-> FALSE,
          user |-> get_user_by_id(U, StrInt(token.sub))]

\* The guard of a server that keeps one session per principal: a login
\* revokes the tokens issued to that principal before it.
get_current_user_latest_only(U, token, at) ==
    IF ~decode_access_token(token, at)
    THEN Unauthenticated("Could not validate credentials")
    ELSE IF /\ last.op = "login" /\ last.status = 200
            /\ last.token.sub = token.sub /\ last.token # token
    THEN Unauthenticated("Could not validate credentials")
    ELSE IF token.sub = ""
    THEN Unauthenticated("Could not validate credentials")
    ELSE IF ~IsIntStr(token.sub)
    THEN Unauthenticated("Could not validate credentials")
    ELSE IF get_user_by_id(U, StrInt(token.sub)) = 0
    THEN Unauthenticated("User not found")
    ELSE [status |-> 200, detail |-> "", www |-> FALSE,
          user |-> get_user_by_id(U, StrInt(token.sub))]

\* The guard telling an expired token from the other failures.
get_current_user_telling(U, token, at) ==
    IF token.sig /\ token.purpose = "access" /\ ~(at < token.exp)
    THEN Unauthenticated("Token has expired")
    ELSE IF ~decode_access_token(token, at)
    THEN Unauthenticated("Could not validate credentials")
    ELSE IF token.sub = ""
    THEN Unauthenticated("Could not validate credentials")
    ELSE IF ~IsIntStr(token.sub)
    THEN Unauthenticated("Could not validate credentials")
    ELSE IF get_user_by_id(U, StrInt(token.sub)) = 0
    THEN Unauthenticated("User not found")
    ELSE [status |-> 200, detail |-> "", www |-> FALSE,
          user |-> get_user_by_id(U, StrInt(token.sub))]

get_current_user(U, token, at) ==
    IF ~decode_access_token(token, at)
    THEN Unauthenticated("Could not validate credentials")
    ELSE IF token.sub = ""
    THEN Unauthenticated("Could not validate credentials")
    ELSE IF ~IsIntStr(token.sub)
    THEN Unauthenticated("Could not validate credentials")
    ELSE IF get_user_by_id(U, StrInt(token.sub)) = 0
    THEN Unauthenticated("User not found")
    ELSE [status |-> 200, detail |-> "", www |-> FALSE,
          user |-> get_user_by_id(U, StrInt(token.sub))]

(***************************** auth service ********************************)
\* authenticate_user without its verify_password test.
authenticate_user_unverified(U, username, password) ==
    LET byName == get_user_by_username(U, username)
    IN IF byName # 0 THEN byName ELSE get_user_by_email(U, username)

authenticate_user(U, username, password) ==
    LET byName == get_user_by_username(U, username)
        user == IF byName # 0 THEN byName ELSE get_user_by_email(U, username)
    IN IF user = 0 THEN 0
       ELSE IF ~verify_password(password, U[user].hashed_password) THEN 0
       ELSE user

\* The unique indexes on users.email and users.username.
UniqueViolation(U, email, username) ==
    \E id \in DOMAIN U : U[id].email = email \/ U[id].username = username

\* create_user giving the new principal the admin role.
create_user_as_admin(U, id, email, username, password) ==
    IF UniqueViolation(U, email, username)
    THEN [ok |-> FALSE, users |-> U]
    ELSE [ok |-> TRUE,
          users |-> U @@ (id :> [email |-> email, username |-> username,
                                 hashed_password |-> get_password_hash(password),
                                 role_id |-> 1])]

\* db.add + commit: the row inserted, or the store's IntegrityError.
create_user(U, id, email, username, password) ==
    IF UniqueViolation(U, email, username)
    THEN [ok |-> FALSE, users |-> U]
    ELSE [ok |-> TRUE,
          users |-> U @@ (id :> [email |-> email, username |-> username,
                                 hashed_password |-> get_password_hash(password),
                                 role_id |-> 2])]

\* reset_password without its "if not email: raise": the lookup runs on
\* whatever the token carries.
reset_password_unchecked(U, token, new_password, at) ==
    IF get_user_by_email(U, token.sub) = 0
    THEN [error |-> "User not found", user |-> 0]
    ELSE IF ~validate_password_strength(new_password).is_valid
    THEN [error |-> validate_password_strength(new_password).error_msg, user |-> 0]
    ELSE [error |-> "", user |-> get_user_by_email(U, token.sub)]

\* reset_password validating the new password before it looks the
\* principal up.
reset_password_strength_first(U, token, new_password, at) ==
    IF ~verify_password_reset_token(token, at)
    THEN [error |-> "Invalid or expired reset token", user |-> 0]
    ELSE IF ~validate_password_strength(new_password).is_valid
    THEN [error |-> validate_password_strength(new_password).error_msg, user |-> 0]
    ELSE IF get_user_by_email(U, token.sub) = 0
    THEN [error |-> "User not found", user |-> 0]
    ELSE [error |-> "", user |-> get_user_by_email(U, token.sub)]

\* The ValueError reset_password raises ("" when it returns), and the
\* principal whose credential it sets.
reset_password(U, token, new_password, at) ==
    IF ~verify_password_reset_token(token, at)
    THEN [error |-> "Invalid or expired reset token", user |-> 0]
    ELSE IF get_user_by_email(U, token.sub) = 0
    THEN [error |-> "User not found", user |-> 0]
    ELSE IF ~validate_password_strength(new_password).is_valid
    THEN [error |-> validate_password_strength(new_password).error_msg, user |-> 0]
    ELSE [error |-> "", user |-> get_user_by_email(U, token.sub)]

\* change_password validating the new password before it verifies the old.
change_password_strength_first(U, user_id, old_password, new_password) ==
    IF get_user_by_id(U, user_id) = 0
    THEN [error |-> "User not found", user |-> 0]
    ELSE IF ~validate_password_strength(new_password).is_valid
    THEN [error |-> validate_password_strength(new_password).error_msg, user |-> 0]
    ELSE IF ~verify_password(old_password, U[user_id].hashed_password)
    THEN [error |-> "Incorrect old password", user |-> 0]
    ELSE [error |-> "", user |-> user_id]

change_password(U, user_id, old_password, new_password) ==
    IF get_user_by_id(U, user_id) = 0
    THEN [error |-> "User not found", user |-> 0]
    ELSE IF ~verify_password(old_password, U[user_id].hashed_password)
    THEN [error |-> "Incorrect old password", user |-> 0]
    ELSE IF ~validate_password_strength(new_password).is_valid
    THEN [error |-> validate_password_strength(new_password).error_msg, user |-> 0]
    ELSE [error |-> "", user |-> user_id]

\* The routers' substring tests on str(e).
SaysInvalidOrExpired(msg) == msg = "Invalid or expired reset token"
SaysIncorrectOld(msg) == msg = "Incorrect old password"
SaysNotFound(msg) == msg = "User not found"

\* request_password_reset without its "if not user: return True".
request_password_reset_always(U, email, at) ==
    <<[to |-> email, subject |-> "Password Reset Request",
       token |-> create_password_reset_token(email, at)]>>

\* What request_password_reset hands to send_email_with_template.
request_password_reset(U, email, at) ==
    IF get_user_by_email(U, email) = 0
    THEN NoMail
    ELSE <<[to |-> email, subject |-> "Password Reset Request",
            token |-> create_password_reset_token(email, at)]>>

(***************************** users service *******************************)
\* UserUpdate with exclude_unset: a field left out is "" (role_id: 0).
Unset == [email |-> "", username |-> "", password |-> "", role_id |-> 0]

\* The row after update_user's setattr loop.
Updated(row, user_data) ==
    [email |-> IF user_data.email # "" THEN user_data.email ELSE row.email,
     username |-> IF user_data.username # "" THEN user_data.username
                  ELSE row.username,
     hashed_password |-> IF user_data.password # ""
                         THEN get_password_hash(user_data.password)
                         ELSE row.hashed_password,
     role_id |-> IF user_data.role_id # 0 THEN user_data.role_id ELSE row.role_id]

\* update_user with no unique index behind its commit.
update_user_unconstrained(U, user_id, user_data, fk) ==
    IF get_user_by_id(U, user_id) = 0
    THEN [found |-> FALSE, error |-> "", users |-> U]
    ELSE IF fk /\ Updated(U[user_id], user_data).role_id \notin DOMAIN Roles
    THEN [found |-> TRUE, error |-> "foreign_key", users |-> U]
    ELSE [found |-> TRUE, error |-> "",
          users |-> [U EXCEPT ![user_id] = Updated(U[user_id], user_data)]]

\* update_user: None when the row is missing; else the fields set and
\* committed, or the commit's IntegrityError (error says from what: a unique
\* index or, where the store enforces it (fk), the foreign key on role_id).
update_user(U, user_id, user_data, fk) ==
    IF get_user_by_id(U, user_id) = 0
    THEN [found |-> FALSE, error |-> "", users |-> U]
    ELSE LET row == Updated(U[user_id], user_data)
         IN IF \E id \in DOMAIN U \ {user_id} :
                   U[id].email = row.email \/ U[id].username = row.username
            THEN [found |-> TRUE, error |-> "unique", users |-> U]
            ELSE IF fk /\ row.role_id \notin DOMAIN Roles
            THEN [found |-> TRUE, error |-> "foreign_key", users |-> U]
            ELSE [found |-> TRUE, error |-> "",
                  users |-> [U EXCEPT ![user_id] = row]]

\* delete_user: False when the row is missing, else the row deleted.
delete_user(U, user_id) ==
    IF get_user_by_id(U, user_id) = 0
    THEN [found |-> FALSE, users |-> U]
    ELSE [found |-> TRUE, users |-> [id \in DOMAIN U \ {user_id} |-> U[id]]]

(***************************** permission and role checkers ****************)
\* current_user.role: the roles row role_id points at, None when there is none.
HasRole(U, user) == U[user].role_id \in DOMAIN Roles

Forbidden(detail, branch) == [status |-> 403, detail |-> detail, branch |-> branch]

Admitted == [status |-> 200, detail |-> "", branch |-> "ok"]

\* PermissionChecker admitting on any one of the required names.
PermissionChecker_any(U, user, required) ==
    IF ~HasRole(U, user)
    THEN Forbidden("User has no role assigned", "no_role")
    ELSE IF \E i \in 1..Len(required) :
                required[i] \in Roles[U[user].role_id].permissions
    THEN Admitted
    ELSE Forbidden("Permission required", "missing_permission")

\* PermissionChecker with a per-user override: the first principal passes
\* whatever its role holds.
PermissionChecker_override(U, user, required) ==
    IF user = 1
    THEN Admitted
    ELSE IF ~HasRole(U, user)
    THEN Forbidden("User has no role assigned", "no_role")
    ELSE LET user_permissions == Roles[U[user].role_id].permissions
             failing == {i \in 1..Len(required) : required[i] \notin user_permissions}
         IN IF failing # {}
            THEN LET first == CHOOSE i \in failing : \A j \in failing : i <= j
                 IN Forbidden("Permission '" \o required[first] \o "' required",
                              "missing_permission")
            ELSE Admitted

\* PermissionChecker(required)(current_user): required is the list __init__
\* keeps; the loop raises on the first name the role does not hold.
PermissionChecker(U, user, required) ==
    IF ~HasRole(U, user)
    THEN Forbidden("User has no role assigned", "no_role")
    ELSE LET user_permissions == Roles[U[user].role_id].permissions
             failing == {i \in 1..Len(required) : required[i] \notin user_permissions}
         IN IF failing # {}
            THEN LET first == CHOOSE i \in failing : \A j \in failing : i <= j
                 IN Forbidden("Permission '" \o required[first] \o "' required",
                              "missing_permission")
            ELSE Admitted

\* RoleChecker taking an empty allowed list as "no restriction".
RoleChecker_empty_admits(U, user, allowed_roles) ==
    IF ~HasRole(U, user)
    THEN Forbidden("User has no role assigned", "no_role")
    ELSE IF /\ allowed_roles # <<>>
            /\ \A i \in 1..Len(allowed_roles) :
                   allowed_roles[i] # Roles[U[user].role_id].name
    THEN Forbidden("Role '" \o Roles[U[user].role_id].name \o "' not allowed",
                   "role_not_allowed")
    ELSE Admitted

\* RoleChecker(allowed_roles)(current_user)
RoleChecker(U, user, allowed_roles) ==
    IF ~HasRole(U, user)
    THEN Forbidden("User has no role assigned", "no_role")
    ELSE IF \A i \in 1..Len(allowed_roles) :
                allowed_roles[i] # Roles[U[user].role_id].name
    THEN Forbidden("Role '" \o Roles[U[user].role_id].name \o "' not allowed",
                   "role_not_allowed")
    ELSE Admitted

(***************************** register handler ****************************)
WeakPassword(msg) == Result("register", 400, msg, "weak_password")
EmailTaken == Result("register", 400, "Email already registered", "email_taken")
UsernameTaken == Result("register", 400, "Username already taken", "username_taken")

\* create_user, then the token: the row and 201, or the uncaught
\* IntegrityError of the commit.
register_create(U, id, email, username, password, at) ==
    LET c == create_user(U, id, email, username, password)
    IN IF ~c.ok
       THEN [resp |-> InternalError("register", "integrity_error"), users |-> U]
       ELSE [resp |-> [Result("register", 201, "", "created")
                         EXCEPT !.token = create_access_token(id, at), !.user = id],
             users |-> c.users]

\* register looking the email up before it validates the password.
register_email_first(U, id, email, username, password, at) ==
    IF get_user_by_email(U, email) # 0
    THEN [resp |-> EmailTaken, users |-> U]
    ELSE IF ~validate_password_strength(password).is_valid
    THEN [resp |-> WeakPassword(validate_password_strength(password).error_msg),
          users |-> U]
    ELSE IF get_user_by_username(U, username) # 0
    THEN [resp |-> UsernameTaken, users |-> U]
    ELSE register_create(U, id, email, username, password, at)

\* The handler when no other request runs between its store calls.
register(U, id, email, username, password, at) ==
    IF ~validate_password_strength(password).is_valid
    THEN [resp |-> WeakPassword(validate_password_strength(password).error_msg),
          users |-> U]
    ELSE IF get_user_by_email(U, email) # 0
    THEN [resp |-> EmailTaken, users |-> U]
    ELSE IF get_user_by_username(U, username) # 0
    THEN [resp |-> UsernameTaken, users |-> U]
    ELSE register_create(U, id, email, username, password, at)

(***************************** state ***************************************)
Garbled == [sub |-> "", purpose |-> "garbled", exp |-> 0, sig |-> FALSE]

\* Attacker-made tokens: any payload, but no valid signature.
ForgedAccess ==
    [sub |-> IdStr(1), purpose |-> "access", exp |-> MaxTime + 1, sig |-> FALSE]

ForgedReset ==
    [sub |-> "a@x.com", purpose |-> "reset", exp |-> MaxTime + 1, sig |-> FALSE]

Held == {m.tok : m \in minted}

\* What a caller can put in the Authorization header, and in the body of
\* reset-password.
Bearers == Held \cup {ForgedAccess, Garbled}

ResetTokens == Held \cup {ForgedReset, Garbled}

\* The principal a token is minted for: the one with the email a reset token
\* names, the one whose id an access token carries.
MintedFor(U, token) ==
    IF token.purpose = "reset" THEN get_user_by_email(U, token.sub)
    ELSE StrInt(token.sub)

\* What clients may hold after receiving a token: they keep it, making room
\* by forgetting an older one when they already hold MaxTokens, or lose it.
Keep(token) ==
    LET new == [tok |-> token, at |-> now, user |-> MintedFor(users, token)]
    IN IF Cardinality(minted \cup {new}) <= MaxTokens
       THEN {minted \cup {new}}
       ELSE {minted} \cup {(minted \ {old}) \cup {new} : old \in minted}

Init ==
    /\ users = <<>>
    /\ nextId = 1
    /\ now = 0
    /\ minted = {}
    /\ tasks = [i \in 1..MaxInflight |-> Idle]
    /\ last = Result("none", 0, "", "")

(***************************** actions *************************************)
\* The id the store gives an inserted row (users.id is an INTEGER primary key
\* with no AUTOINCREMENT): the next value of a sequence that never goes back
\* (PostgreSQL), or one more than the largest id in the table (SQLite, the
\* store of tests/conftest.py), which hands out the id of a deleted last row
\* again.
NewIds(U, seq) ==
    {seq} \cup {IF DOMAIN U = {} THEN 1
                ELSE 1 + CHOOSE m \in DOMAIN U : \A i \in DOMAIN U : i <= m}

Register(email, username, password) ==
    \E id \in NewIds(users, nextId) :
        LET r == register(users, id, email, username, password, now)
        IN /\ r.resp.status = 201 => id <= MaxUsers
           /\ users' = r.users
           /\ last' = r.resp
           /\ IF r.resp.status = 201
              THEN /\ nextId' = IF id = nextId THEN nextId + 1 ELSE nextId
                   /\ minted' \in Keep(r.resp.token)
              ELSE UNCHANGED <<nextId, minted>>
           /\ UNCHANGED <<now, tasks>>

\* login telling an unknown identifier from a wrong password.
Login_telling(username, password) ==
    LET user == authenticate_user(users, username, password)
        known == get_user_by_username(users, username) # 0
                 \/ get_user_by_email(users, username) # 0
    IN /\ IF user = 0
          THEN /\ last' = [Result("login", 401,
                                  IF known THEN "Incorrect password"
                                  ELSE "Incorrect username or password",
                                  IF known THEN "bad_password" ELSE "no_user")
                             EXCEPT !.www = TRUE]
               /\ UNCHANGED minted
          ELSE /\ last' = [Result("login", 200, "", "ok")
                             EXCEPT !.token = create_access_token(user, now),
                                    !.user = user]
               /\ minted' \in Keep(create_access_token(user, now))
       /\ UNCHANGED <<users, nextId, now, tasks>>

Login(username, password) ==
    LET user == authenticate_user(users, username, password)
        known == get_user_by_username(users, username) # 0
                 \/ get_user_by_email(users, username) # 0
    IN /\ IF user = 0
          THEN /\ last' = [Result("login", 401, "Incorrect username or password",
                                  IF known THEN "bad_password" ELSE "no_user")
                             EXCEPT !.www = TRUE]
               /\ UNCHANGED minted
          ELSE /\ last' = [Result("login", 200, "", "ok")
                             EXCEPT !.token = create_access_token(user, now),
                                    !.user = user]
               /\ minted' \in Keep(create_access_token(user, now))
       /\ UNCHANGED <<users, nextId, now, tasks>>

Guarded(op, token) ==
    LET g == get_current_user(users, token, now)
    IN [Result(op, g.status, g.detail, IF g.status = 200 THEN "ok" ELSE "guard")
          EXCEPT !.www = g.www, !.user = g.user, !.tok = token]

Me(token) ==
    /\ last' = Guarded("me", token)
    /\ UNCHANGED <<users, nextId, now, minted, tasks>>

\* forgot_password without its try/except around the service call.
ForgotPassword_raising(email, mailOk) ==
    LET mail == request_password_reset(users, email, now)
    IN /\ last' = [(IF mail # NoMail /\ ~mailOk
                    THEN InternalError("forgot", "send_failed")
                    ELSE Result("forgot", 200,
                                "If the email exists, a password reset link has been sent.",
                                IF mail = NoMail THEN "no_user" ELSE "sent"))
                     EXCEPT !.sent = mail]
       /\ minted' \in IF mail # NoMail /\ mailOk THEN Keep(mail[1].token) ELSE {minted}
       /\ UNCHANGED <<users, nextId, now, tasks>>

ForgotPassword(email, mailOk) ==
    LET mail == request_password_reset(users, email, now)
    IN /\ last' = [Result("forgot", 200,
                          "If the email exists, a password reset link has been sent.",
                          IF mail = NoMail THEN "no_user"
                          ELSE IF mailOk THEN "sent" ELSE "send_failed")
                     EXCEPT !.sent = mail]
       /\ minted' \in IF mail # NoMail /\ mailOk THEN Keep(mail[1].token) ELSE {minted}
       /\ UNCHANGED <<users, nextId, now, tasks>>

\* The reset token presented is the one the preceding request changed a
\* password with.
Replayed(token) == last.op = "reset" /\ last.status = 200 /\ last.tok = token

\* reset_password_endpoint refusing a token it has just accepted.
ResetPassword_single_use(token, new_password, mailOk) ==
    LET r == IF Replayed(token)
             THEN [error |-> "Invalid or expired reset token", user |-> 0]
             ELSE reset_password(users, token, new_password, now)
    IN /\ IF r.error # ""
          THEN /\ last' = [(IF SaysInvalidOrExpired(r.error)
                            THEN Result("reset", 400, "Invalid or expired reset token",
                                        "bad_token")
                            ELSE IF SaysNotFound(r.error)
                            THEN Result("reset", 404, "User not found", "no_user")
                            ELSE Result("reset", 400, r.error, "weak_password"))
                             EXCEPT !.tok = token, !.replay = Replayed(token)]
               /\ UNCHANGED users
          ELSE /\ users' = [users EXCEPT ![r.user].hashed_password =
                                             get_password_hash(new_password)]
               /\ last' = [(IF mailOk
                            THEN Result("reset", 200,
                                        "Password has been reset successfully", "ok")
                            ELSE InternalError("reset", "send_failed"))
                             EXCEPT !.tok = token, !.user = r.user,
                                    !.replay = Replayed(token),
                                    !.sent = <<[to |-> token.sub,
                                                subject |-> "Password Reset Successful",
                                                token |-> NoToken]>>]
       /\ UNCHANGED <<nextId, now, minted, tasks>>

\* reset_password_endpoint undoing the new credential when the confirmation
\* mail cannot be sent.
ResetPassword_rollback(token, new_password, mailOk) ==
    LET r == reset_password(users, token, new_password, now)
    IN /\ IF r.error # ""
          THEN /\ last' = [(IF SaysInvalidOrExpired(r.error)
                            THEN Result("reset", 400, "Invalid or expired reset token",
                                        "bad_token")
                            ELSE IF SaysNotFound(r.error)
                            THEN Result("reset", 404, "User not found", "no_user")
                            ELSE Result("reset", 400, r.error, "weak_password"))
                             EXCEPT !.tok = token]
               /\ UNCHANGED users
          ELSE /\ users' = IF mailOk
                           THEN [users EXCEPT ![r.user].hashed_password =
                                                  get_password_hash(new_password)]
                           ELSE users
               /\ last' = [(IF mailOk
                            THEN Result("reset", 200,
                                        "Password has been reset successfully", "ok")
                            ELSE InternalError("reset", "send_failed"))
                             EXCEPT !.tok = token, !.user = r.user,
                                    !.sent = <<[to |-> token.sub,
                                                subject |-> "Password Reset Successful",
                                                token |-> NoToken]>>]
       /\ UNCHANGED <<nextId, now, minted, tasks>>

ResetPassword(token, new_password, mailOk) ==
    LET r == reset_password(users, token, new_password, now)
    IN /\ IF r.error # ""
          THEN /\ last' = [(IF SaysInvalidOrExpired(r.error)
                            THEN Result("reset", 400, "Invalid or expired reset token",
                                        "bad_token")
                            ELSE IF SaysNotFound(r.error)
                            THEN Result("reset", 404, "User not found", "no_user")
                            ELSE Result("reset", 400, r.error, "weak_password"))
                             EXCEPT !.tok = token, !.replay = Replayed(token)]
               /\ UNCHANGED users
          ELSE /\ users' = [users EXCEPT ![r.user].hashed_password =
                                             get_password_hash(new_password)]
               /\ last' = [(IF mailOk
                            THEN Result("reset", 200,
                                        "Password has been reset successfully", "ok")
                            ELSE InternalError("reset", "send_failed"))
                             EXCEPT !.tok = token, !.user = r.user,
                                    !.replay = Replayed(token),
                                    !.sent = <<[to |-> token.sub,
                                                subject |-> "Password Reset Successful",
                                                token |-> NoToken]>>]
       /\ UNCHANGED <<nextId, now, minted, tasks>>

\* change_password_endpoint storing the hash of the old password again.
change_password_endpoint_stale(U, user_id, token, old_password, new_password, mailOk) ==
    LET r == change_password(U, user_id, old_password, new_password)
    IN IF r.error # ""
       THEN [resp |-> [(IF SaysIncorrectOld(r.error)
                        THEN Result("change", 400, "Incorrect old password",
                                    "bad_old_password")
                        ELSE IF SaysNotFound(r.error)
                        THEN Result("change", 404, "User not found", "no_user")
                        ELSE Result("change", 400, r.error, "weak_password"))
                         EXCEPT !.tok = token],
             users |-> U]
       ELSE [resp |-> [(IF mailOk
                        THEN Result("change", 200,
                                    "Password has been changed successfully", "ok")
                        ELSE InternalError("change", "send_failed"))
                         EXCEPT !.tok = token, !.user = r.user,
                                !.sent = <<[to |-> U[r.user].email,
                                            subject |-> "Password Changed Successfully",
                                            token |-> NoToken]>>],
             users |-> [U EXCEPT ![r.user].hashed_password =
                                     get_password_hash(old_password)]]

\* change_password_endpoint once the guard has resolved the caller to
\* user_id: the service call, its ValueErrors translated, and the
\* confirmation mail after the commit.
change_password_endpoint(U, user_id, token, old_password, new_password, mailOk) ==
    LET r == change_password(U, user_id, old_password, new_password)
    IN IF r.error # ""
       THEN [resp |-> [(IF SaysIncorrectOld(r.error)
                        THEN Result("change", 400, "Incorrect old password",
                                    "bad_old_password")
                        ELSE IF SaysNotFound(r.error)
                        THEN Result("change", 404, "User not found", "no_user")
                        ELSE Result("change", 400, r.error, "weak_password"))
                         EXCEPT !.tok = token],
             users |-> U]
       ELSE [resp |-> [(IF mailOk
                        THEN Result("change", 200,
                                    "Password has been changed successfully", "ok")
                        ELSE InternalError("change", "send_failed"))
                         EXCEPT !.tok = token, !.user = r.user,
                                !.sent = <<[to |-> U[r.user].email,
                                            subject |-> "Password Changed Successfully",
                                            token |-> NoToken]>>],
             users |-> [U EXCEPT ![r.user].hashed_password =
                                     get_password_hash(new_password)]]

ChangePassword(token, old_password, new_password, mailOk) ==
    LET g == get_current_user(users, token, now)
        e == change_password_endpoint(users, g.user, token, old_password,
                                      new_password, mailOk)
    IN /\ IF g.status # 200
          THEN /\ last' = Guarded("change", token)
               /\ UNCHANGED users
          ELSE /\ last' = e.resp
               /\ users' = e.users
       /\ UNCHANGED <<nextId, now, minted, tasks>>

Tick ==
    /\ now < MaxTime
    /\ now' = now + 1
    /\ UNCHANGED <<users, nextId, minted, tasks, last>>

Next ==
    \/ \E e \in Emails, u \in Usernames, p \in Passwords : Register(e, u, p)
    \/ \E i \in Idents, p \in Passwords : Login(i, p)
    \/ \E t \in Bearers : Me(t)
    \/ \E e \in Emails, ok \in BOOLEAN : ForgotPassword(e, ok)
    \/ \E t \in ResetTokens, p \in Passwords, ok \in BOOLEAN : ResetPassword(t, p, ok)
    \/ \E t \in Bearers, o \in Passwords, p \in Passwords, ok \in BOOLEAN :
           ChangePassword(t, o, p, ok)
    \/ Tick

Spec == Init /\ [][Next]_vars

(***************************** concurrent registration *********************)
\* The register handler suspended at each store call: other requests run
\* between its email lookup, its username lookup and its insert.
FreeSlot == CHOOSE i \in 1..MaxInflight :
                /\ tasks[i].pc = "idle"
                /\ \A j \in 1..MaxInflight : tasks[j].pc = "idle" => i <= j

RegisterStart(email, username, password) ==
    /\ \E i \in 1..MaxInflight : tasks[i].pc = "idle"
    /\ IF ~validate_password_strength(password).is_valid
       THEN /\ last' = WeakPassword(validate_password_strength(password).error_msg)
            /\ UNCHANGED tasks
       ELSE IF get_user_by_email(users, email) # 0
       THEN /\ last' = EmailTaken
            /\ UNCHANGED tasks
       ELSE /\ tasks' = [tasks EXCEPT ![FreeSlot] =
                            [Idle EXCEPT !.pc = "username", !.email = email,
                                         !.username = username,
                                         !.password = password]]
            /\ UNCHANGED last
    /\ UNCHANGED <<users, nextId, now, minted>>

RegisterCheckUsername(i) ==
    /\ tasks[i].pc = "username"
    /\ IF get_user_by_username(users, tasks[i].username) # 0
       THEN /\ last' = UsernameTaken
            /\ tasks' = [tasks EXCEPT ![i] = Idle]
       ELSE /\ tasks' = [tasks EXCEPT ![i].pc = "create"]
            /\ UNCHANGED last
    /\ UNCHANGED <<users, nextId, now, minted>>

RegisterCreate(i) ==
    /\ tasks[i].pc = "create"
    /\ \E id \in NewIds(users, nextId) :
           LET r == register_create(users, id, tasks[i].email, tasks[i].username,
                                    tasks[i].password, now)
           IN /\ r.resp.status = 201 => id <= MaxUsers
              /\ users' = r.users
              /\ last' = r.resp
              /\ IF r.resp.status = 201
                 THEN /\ nextId' = IF id = nextId THEN nextId + 1 ELSE nextId
                      /\ minted' \in Keep(r.resp.token)
                 ELSE UNCHANGED <<nextId, minted>>
    /\ tasks' = [tasks EXCEPT ![i] = Idle]
    /\ UNCHANGED now

NextRace ==
    \/ \E e \in Emails, u \in Usernames, p \in Passwords : RegisterStart(e, u, p)
    \/ \E i \in 1..MaxInflight : RegisterCheckUsername(i)
    \/ \E i \in 1..MaxInflight : RegisterCreate(i)

SpecRace == Init /\ [][NextRace]_vars

(***************************** guarded endpoints ***************************)
\* What endpoints pass to PermissionChecker and RoleChecker.
RequiredLists ==
    {<<>>, <<"read_user">>, <<"update_user">>, <<"delete_user">>,
     <<"manage_roles">>, <<"send_email">>, <<"read_user", "update_user">>,
     <<"update_user", "read_user">>, <<"send_email", "manage_roles">>}

AllowedLists ==
    {<<>>, <<"admin">>, <<"user">>, <<"admin", "moderator">>, <<"moderator", "user">>}

\* The one permission name each PermissionChecker-guarded endpoint of the
\* users, rbac and mail routers requires.
EndpointPermissions ==
    {"read_user", "update_user", "delete_user", "manage_roles", "send_email"}

\* A role_id with no roles row (a store that does not enforce the foreign
\* key, or one whose roles table was never seeded).
RoleIds == DOMAIN Roles \cup {4}

\* A handler behind Depends(PermissionChecker(required)): the guard first,
\* then the checker on the principal it loaded.
CheckedBy(op, token, verdict) ==
    IF Guarded(op, token).status # 200
    THEN Guarded(op, token)
    ELSE [Guarded(op, token) EXCEPT !.status = verdict.status,
                                    !.detail = verdict.detail,
                                    !.branch = verdict.branch]

RequirePermission(token, required) ==
    /\ last' = CheckedBy("permission", token,
                         PermissionChecker(users, Guarded("permission", token).user,
                                           required))
    /\ UNCHANGED <<users, nextId, now, minted, tasks>>

RequireRole(token, allowed_roles) ==
    /\ last' = CheckedBy("role", token,
                         RoleChecker(users, Guarded("role", token).user, allowed_roles))
    /\ UNCHANGED <<users, nextId, now, minted, tasks>>

\* What HTTPBearer() answers a request with no Authorization header, or one
\* that is not "Bearer <token>", before get_current_user runs: 403 in
\* FastAPI up to 0.121, 401 since.
NotAuthenticatedStatus == {401, 403}

RequestWithoutCredentials(op, status) ==
    /\ last' = [Result(op, status, "Not authenticated", "no_credentials")
                  EXCEPT !.www = (status = 401)]
    /\ UNCHANGED <<users, nextId, now, minted, tasks>>

\* Any one stored principal, with any role_id, holding a fresh access token.
InitCheck ==
    /\ \E e \in Emails, u \in Usernames, r \in RoleIds :
           users = (1 :> [email |-> e, username |-> u,
                          hashed_password |-> get_password_hash("Abcdef12!"),
                          role_id |-> r])
    /\ nextId = 2
    /\ now = 0
    /\ minted = {[tok |-> create_access_token(1, 0), at |-> 0, user |-> 1]}
    /\ tasks = [i \in 1..MaxInflight |-> Idle]
    /\ last = Result("none", 0, "", "")

NextCheck ==
    \/ \E t \in Bearers, required \in RequiredLists : RequirePermission(t, required)
    \/ \E t \in Bearers, allowed \in AllowedLists : RequireRole(t, allowed)
    \/ \E op \in {"permission", "role"}, status \in NotAuthenticatedStatus :
           RequestWithoutCredentials(op, status)
    \/ Tick

SpecCheck == InitCheck /\ [][NextCheck]_vars

(***************************** user administration ************************)
\* The administrator the deployment starts with (CREATE_DEFAULT_ADMIN).
DEFAULT_ADMIN_EMAIL == "root@x.com"
DEFAULT_ADMIN_USERNAME == "root"
DEFAULT_ADMIN_PASSWORD == "Abcdef12!"

\* The tokens principals get by logging in, and by asking for a password
\* reset, at this instant.
LoggedIn == {create_access_token(id, now) : id \in DOMAIN users}

ResetRequested ==
    {create_password_reset_token(users[id].email, now) : id \in DOMAIN users}

\* Bodies of PUT /users/{user_id}: one field each.
UserUpdates ==
    {[Unset EXCEPT !.email = e] : e \in {"a@x.com", DEFAULT_ADMIN_EMAIL}}
    \cup {[Unset EXCEPT !.username = u] : u \in {"alice", DEFAULT_ADMIN_USERNAME}}
    \cup {[Unset EXCEPT !.password = "TestPass123!"]}
    \cup {[Unset EXCEPT !.role_id = 4]}

UserIds == 1..(MaxUsers + 1)

UpdateUser(token, user_id, user_data, fk) ==
    LET g == CheckedBy("update", token,
                       PermissionChecker(users, Guarded("update", token).user,
                                         <<"update_user">>))
        r == update_user(users, user_id, user_data, fk)
    IN /\ IF g.status # 200
          THEN /\ last' = g
               /\ UNCHANGED users
          ELSE IF ~r.found
          THEN /\ last' = [Result("update", 404, "User not found", "no_user")
                             EXCEPT !.tok = token]
               /\ UNCHANGED users
          ELSE IF r.error # ""
          THEN /\ last' = [InternalError("update", r.error) EXCEPT !.tok = token]
               /\ UNCHANGED users
          ELSE /\ last' = [Result("update", 200, "", "ok")
                             EXCEPT !.tok = token, !.user = user_id]
               /\ users' = r.users
       /\ UNCHANGED <<nextId, now, minted, tasks>>

DeleteUser(token, user_id) ==
    LET g == CheckedBy("delete", token,
                       PermissionChecker(users, Guarded("delete", token).user,
                                         <<"delete_user">>))
        r == delete_user(users, user_id)
    IN /\ IF g.status # 200
          THEN /\ last' = g
               /\ UNCHANGED users
          ELSE IF ~r.found
          THEN /\ last' = [Result("delete", 404, "User not found", "no_user")
                             EXCEPT !.tok = token]
               /\ UNCHANGED users
          ELSE /\ last' = [Result("delete", 204, "", "ok")
                             EXCEPT !.tok = token, !.user = user_id]
               /\ users' = r.users
       /\ UNCHANGED <<nextId, now, minted, tasks>>

InitUsers ==
    /\ users = (1 :> [email |-> DEFAULT_ADMIN_EMAIL,
                      username |-> DEFAULT_ADMIN_USERNAME,
                      hashed_password |-> get_password_hash(DEFAULT_ADMIN_PASSWORD),
                      role_id |-> 1])
    /\ nextId = 2
    /\ now = 0
    /\ minted = {}
    /\ tasks = [i \in 1..MaxInflight |-> Idle]
    /\ last = Result("none", 0, "", "")

NextUsers ==
    \/ \E e \in {"a@x.com", DEFAULT_ADMIN_EMAIL} : Register(e, "alice", "Abcdef12!")
    \/ \E p \in StrongPasswords : Login("alice", p)
    \/ \E t \in Held : Me(t)
    \/ ForgotPassword("a@x.com", TRUE)
    \/ \E t \in Held \cup ResetRequested, p \in {"TestPass123!", "weak"} :
           ResetPassword(t, p, TRUE)
    \/ \E t \in Held : ChangePassword(t, "Abcdef12!", "TestPass123!", TRUE)
    \/ \E t \in LoggedIn, id \in UserIds, d \in UserUpdates :
           \E fk \in IF d.role_id = 0 THEN {TRUE} ELSE BOOLEAN :
               UpdateUser(t, id, d, fk)
    \/ \E t \in LoggedIn, id \in UserIds : DeleteUser(t, id)
    \/ Tick

SpecUsers == InitUsers /\ [][NextUsers]_vars

(***************************** change-password among other requests ********)
\* change_password_endpoint suspended between the guard's load of the caller
\* and the service call: other requests run in between.
ChangePasswordStart(token, old_password, new_password) ==
    /\ \E i \in 1..MaxInflight : tasks[i].pc = "idle"
    /\ IF get_current_user(users, token, now).status # 200
       THEN /\ last' = Guarded("change", token)
            /\ UNCHANGED tasks
       ELSE /\ tasks' = [tasks EXCEPT ![FreeSlot] =
                            [Idle EXCEPT !.pc = "change",
                                         !.user = get_current_user(users, token, now).user,
                                         !.token = token,
                                         !.password = old_password,
                                         !.new_password = new_password]]
            /\ UNCHANGED last
    /\ UNCHANGED <<users, nextId, now, minted>>

ChangePasswordFinish(i, mailOk) ==
    /\ tasks[i].pc = "change"
    /\ LET e == change_password_endpoint(users, tasks[i].user, tasks[i].token,
                                         tasks[i].password, tasks[i].new_password,
                                         mailOk)
       IN /\ last' = e.resp
          /\ users' = e.users
    /\ tasks' = [tasks EXCEPT ![i] = Idle]
    /\ UNCHANGED <<nextId, now, minted>>

NextChange ==
    \/ Register("a@x.com", "alice", "Abcdef12!")
    \/ \E t \in Bearers \cup LoggedIn, o \in StrongPasswords, p \in Passwords :
           ChangePasswordStart(t, o, p)
    \/ \E i \in 1..MaxInflight, ok \in BOOLEAN : ChangePasswordFinish(i, ok)
    \/ \E t \in LoggedIn, id \in UserIds : DeleteUser(t, id)

SpecChange == InitUsers /\ [][NextChange]_vars

(***************************** administrators at work **********************)
\* A password UserUpdate accepts (its only constraint is min_length=8) that
\* the strength policy refuses.
LongWeakPassword == "password"

\* Bodies of PUT /users/{user_id} that set a password or a role.
AdminUpdates ==
    {[Unset EXCEPT !.password = p] : p \in {"TestPass123!", LongWeakPassword}}
    \cup {[Unset EXCEPT !.role_id = r] : r \in {2, 3}}

NextAdmin ==
    \/ Register("a@x.com", "alice", "Abcdef12!")
    \/ \E p \in {"Abcdef12!", LongWeakPassword} : Login("alice", p)
    \/ \E t \in Held \cup LoggedIn, id \in UserIds, d \in AdminUpdates :
           UpdateUser(t, id, d, TRUE)
    \/ \E t \in Held \cup LoggedIn, id \in UserIds : DeleteUser(t, id)
    \/ Tick

SpecAdmin == InitUsers /\ [][NextAdmin]_vars

(***************************** requests while the store is down *************)
\* Each handler when every store call it makes raises (the store is
\* unreachable): what runs before the first store call still answers, the
\* rest is whatever catches the exception.
RegisterUnreachable(email, username, password) ==
    /\ last' = IF ~validate_password_strength(password).is_valid
                THEN WeakPassword(validate_password_strength(password).error_msg)
                ELSE InternalError("register", "store_failed")
    /\ UNCHANGED <<users, nextId, now, minted, tasks>>

LoginUnreachable(username, password) ==
    /\ last' = InternalError("login", "store_failed")
    /\ UNCHANGED <<users, nextId, now, minted, tasks>>

\* get_current_user decodes the token and reads its sub before it queries.
GuardUnreachable(op, token) ==
    /\ last' = IF \/ ~decode_access_token(token, now)
                   \/ token.sub = ""
                   \/ ~IsIntStr(token.sub)
                THEN Guarded(op, token)
                ELSE [InternalError(op, "store_failed") EXCEPT !.tok = token]
    /\ UNCHANGED <<users, nextId, now, minted, tasks>>

\* forgot_password: "except Exception: pass" around the service call.
ForgotPasswordUnreachable(email) ==
    /\ last' = Result("forgot", 200,
                       "If the email exists, a password reset link has been sent.",
                       "store_failed")
    /\ UNCHANGED <<users, nextId, now, minted, tasks>>

ResetPasswordUnreachable(token, new_password) ==
    /\ last' = [(IF ~verify_password_reset_token(token, now)
                  THEN Result("reset", 400, "Invalid or expired reset token",
                              "bad_token")
                  ELSE InternalError("reset", "store_failed"))
                   EXCEPT !.tok = token]
    /\ UNCHANGED <<users, nextId, now, minted, tasks>>

\* health_check answering 503 when its probe fails.
health_check_strict(probeOk) ==
    [code |-> IF probeOk THEN 200 ELSE 503,
     status |-> IF probeOk THEN "healthy" ELSE "unhealthy",
     database |-> IF probeOk THEN "connected" ELSE "disconnected"]

\* health_check: the status code and the body, given whether SELECT 1 ran.
health_check(probeOk) ==
    [code |-> 200, status |-> "healthy",
     database |-> IF probeOk THEN "connected" ELSE "disconnected"]

\* GET /health: detail carries the body's "status", branch its "database".
Health(probeOk) ==
    /\ last' = Result("health", health_check(probeOk).code,
                       health_check(probeOk).status, health_check(probeOk).database)
    /\ UNCHANGED <<users, nextId, now, minted, tasks>>

NextOutage ==
    \/ \E e \in Emails, u \in Usernames : Register(e, u, "Abcdef12!")
    \/ \E i \in {"alice", "nobody"}, p \in {"Abcdef12!", "weak"} : Login(i, p)
    \/ \E e \in Emails : ForgotPassword(e, TRUE)
    \/ \E p \in {"Abcdef12!", "weak"} : RegisterUnreachable("a@x.com", "alice", p)
    \/ LoginUnreachable("alice", "Abcdef12!")
    \/ \E op \in {"me", "change"}, t \in Bearers : GuardUnreachable(op, t)
    \/ \E e \in Emails : ForgotPasswordUnreachable(e)
    \/ \E t \in ResetTokens : ResetPasswordUnreachable(t, "TestPass123!")
    \/ \E probeOk \in BOOLEAN : Health(probeOk)
    \/ Tick

SpecOutage == Init /\ [][NextOutage]_vars

(***************************** self-service callers *************************)
\* The administrator's row as the deployment created it.
SeededAdmin ==
    [email |-> DEFAULT_ADMIN_EMAIL, username |-> DEFAULT_ADMIN_USERNAME,
     hashed_password |-> get_password_hash(DEFAULT_ADMIN_PASSWORD), role_id |-> 1]

\* A body of PUT /users/{user_id} asking for the admin role.
Promotion == [Unset EXCEPT !.role_id = 1]

\* Callers who are not the administrator: they register, log in with what
\* they registered (or guess at the administrator's login), use the
\* forgot/reset/change flows on their own address, and try the guarded
\* endpoints with every token they were given.
NextSelf ==
    \/ \E e \in {"a@x.com", DEFAULT_ADMIN_EMAIL},
          u \in {"alice", DEFAULT_ADMIN_USERNAME} : Register(e, u, "TestPass123!")
    \/ \E i \in {"alice", "a@x.com"}, p \in Passwords : Login(i, p)
    \/ \E i \in {DEFAULT_ADMIN_USERNAME, DEFAULT_ADMIN_EMAIL} : Login(i, "TestPass123!")
    \/ \E t \in Bearers : Me(t)
    \/ ForgotPassword("a@x.com", TRUE)
    \/ \E t \in ResetTokens, p \in StrongPasswords : ResetPassword(t, p, TRUE)
    \/ \E t \in Bearers, o \in StrongPasswords, p \in StrongPasswords :
           ChangePassword(t, o, p, TRUE)
    \/ \E t \in Bearers, id \in UserIds : UpdateUser(t, id, Promotion, TRUE)
    \/ \E t \in Bearers, id \in UserIds : DeleteUser(t, id)
    \/ \E t \in Bearers : RequirePermission(t, <<"manage_roles">>)
    \/ Tick

SpecSelf == InitUsers /\ [][NextSelf]_vars

(***************************** properties **********************************)
Range(seq) == {seq[i] : i \in 1..Len(seq)}

InvalidOrExpiredToken == "Invalid or expired reset token"

\* C1: a reset token is never accepted where an access token is expected
\* and an access token never where a reset token is expected: every reset
\* token minted by forgot-password, presented as the bearer token, is
\* answered 401 by the request guard, whatever its email is and whoever is
\* registered, and every access token minted by register or login,
\* presented to reset-password, is answered "Invalid or expired reset token".
C1_PurposeSeparation ==
    /\ \A m \in minted : m.tok.purpose = "reset" =>
           /\ get_current_user(users, m.tok, now).status = 401
           /\ get_current_user(users, m.tok, now).user = 0
    /\ \A m \in minted : m.tok.purpose = "access" =>
           \A p \in Passwords :
               reset_password(users, m.tok, p, now).error = InvalidOrExpiredToken
    /\ (last.op \in {"me", "change"} /\ last.tok.purpose = "reset") =>
           last.status = 401
    /\ (last.op = "reset" /\ last.tok.purpose = "access") =>
           (last.status = 400 /\ last.detail = InvalidOrExpiredToken)

\* An unexpired reset token for the all-digit email "2" was presented to the
\* guard while a principal with id 2 exists, and was refused.
C1_Witness ==
    /\ last.op = "me"
    /\ last.tok.purpose = "reset" /\ last.tok.sig /\ now < last.tok.exp
    /\ IsIntStr(last.tok.sub) /\ StrInt(last.tok.sub) \in DOMAIN users
    /\ last.status = 401

\* C2: a token minted at m with ttl t verifies exactly while now < m + t;
\* from m + t onwards the guard answers an access token 401 and
\* reset-password answers a reset token "Invalid or expired reset token",
\* in every later state.
C2_Expiry ==
    /\ \A m \in minted :
           LET live == now < m.at + TTL(m.tok.purpose)
           IN /\ m.tok.purpose = "access" =>
                     /\ decode_access_token(m.tok, now) <=> live
                     /\ ~live => get_current_user(users, m.tok, now).status = 401
              /\ m.tok.purpose = "reset" =>
                     /\ verify_password_reset_token(m.tok, now) <=> live
                     /\ ~live => \A p \in Passwords :
                            reset_password(users, m.tok, p, now).error
                                = InvalidOrExpiredToken

\* The guard refused a correctly signed access token of an existing
\* principal at or after its expiry.
C2_Witness ==
    /\ last.op = "me"
    /\ last.tok.purpose = "access" /\ last.tok.sig /\ last.tok.exp <= now
    /\ StrInt(last.tok.sub) \in DOMAIN users
    /\ last.status = 401 /\ last.detail = "Could not validate credentials"

\* C3: the permission check admits a principal iff it has a role and every
\* required permission name is among that role's permission names; a
\* principal without a role gets 403 for every required list, the empty one
\* included.
C3_PermissionCheck ==
    /\ \A id \in DOMAIN users, required \in RequiredLists :
           LET verdict == PermissionChecker(users, id, required)
           IN /\ verdict.status = 200 <=>
                     /\ HasRole(users, id)
                     /\ Range(required) \subseteq Roles[users[id].role_id].permissions
              /\ verdict.status # 200 => verdict.status = 403
    /\ (last.op = "permission" /\ last.user # 0 /\ ~HasRole(users, last.user)) =>
           last.status = 403

\* A principal without a role passed the guard and was refused by the
\* permission check.
C3_Witness ==
    /\ last.op = "permission"
    /\ last.user # 0 /\ ~HasRole(users, last.user)
    /\ last.status = 403 /\ last.detail = "User has no role assigned"

\* C4: the role check admits a principal iff it has a role whose name is one
\* of the allowed names; otherwise (no role, or an empty allowed list
\* included) the answer is 403.
C4_RoleCheck ==
    /\ \A id \in DOMAIN users, allowed \in AllowedLists :
           LET verdict == RoleChecker(users, id, allowed)
           IN /\ verdict.status = 200 <=>
                     /\ HasRole(users, id)
                     /\ Roles[users[id].role_id].name \in Range(allowed)
              /\ verdict.status # 200 => verdict.status = 403
    /\ (last.op = "role" /\ last.user # 0 /\ ~HasRole(users, last.user)) =>
           last.status = 403

\* The role check admitted a moderator.
C4_Witness ==
    /\ last.op = "role"
    /\ last.status = 200
    /\ users[last.user].role_id = 3

\* What the caller of a request sees.
Visible(r) == [status |-> r.status, detail |-> r.detail, www |-> r.www,
               token |-> r.token]

InvalidCredentials ==
    [status |-> 401, detail |-> "Incorrect username or password", www |-> TRUE,
     token |-> NoToken]

\* C5: a login that fails, because the identifier matches no principal by
\* username or by email or because the password does not match the stored
\* digest, is answered by one and the same response in every store state
\* (401, the same detail, the same header, no token), and changes nothing
\* in the store.
C5_LoginIndistinguishable ==
    [][\A i \in Idents, p \in Passwords :
           (last'.op = "login" /\ Login(i, p) /\ authenticate_user(users, i, p) = 0) =>
               /\ Visible(last') = InvalidCredentials
               /\ UNCHANGED <<users, nextId, minted>>]_vars

\* A login failed on the password of an existing principal.
C5_Witness ==
    /\ last.op = "login"
    /\ last.branch = "bad_password"
    /\ last.status = 401
    /\ users # <<>>

ForgotMessage == "If the email exists, a password reset link has been sent."

\* C6: forgot-password answers 200 with the same message in every branch:
\* email not registered, mail sent, mail send failed.
C6_ForgotAlwaysSucceeds ==
    last.op = "forgot" =>
        Visible(last) = [status |-> 200, detail |-> ForgotMessage, www |-> FALSE,
                         token |-> NoToken]

\* forgot-password for a registered email whose mail send failed.
C6_Witness ==
    /\ last.op = "forgot"
    /\ last.branch = "send_failed"
    /\ Len(last.sent) = 1
    /\ last.status = 200

\* C7: forgot-password attempts a send iff the email belongs to a principal:
\* for an unknown email nothing is sent and no token is minted; for a known
\* one exactly one send is attempted, to that email only, carrying a reset
\* token whose subject is that email.
C7_SendIffRegistered ==
    [][\A e \in Emails, ok \in BOOLEAN :
           (last'.op = "forgot" /\ ForgotPassword(e, ok)) =>
               IF \E id \in DOMAIN users : users[id].email = e
               THEN /\ Len(last'.sent) = 1
                    /\ last'.sent[1].to = e
                    /\ last'.sent[1].token.purpose = "reset"
                    /\ last'.sent[1].token.sub = e
                    /\ last'.sent[1].token.sig
               ELSE /\ last'.sent = NoMail
                    /\ minted' = minted]_vars

\* forgot-password sent its one mail to the registered email it was given.
C7_Witness ==
    /\ last.op = "forgot"
    /\ last.branch = "sent"
    /\ Len(last.sent) = 1
    /\ \E id \in DOMAIN users : users[id].email = last.sent[1].to

\* C8: register fails with the first violated check, in the order weak
\* password, email already registered, username already taken, each with
\* status 400; a failing register creates and changes no principal and
\* returns no token.
C8_RegisterCheckOrder ==
    [][\A e \in Emails, u \in Usernames, p \in Passwords :
           (last'.op = "register" /\ Register(e, u, p)) =>
               LET weak == ~validate_password_strength(p).is_valid
                   emailUsed == \E id \in DOMAIN users : users[id].email = e
                   nameUsed == \E id \in DOMAIN users : users[id].username = u
               IN /\ weak =>
                         /\ last'.status = 400
                         /\ last'.detail = validate_password_strength(p).error_msg
                  /\ (~weak /\ emailUsed) =>
                         /\ last'.status = 400
                         /\ last'.detail = "Email already registered"
                  /\ (~weak /\ ~emailUsed /\ nameUsed) =>
                         /\ last'.status = 400
                         /\ last'.detail = "Username already taken"
                  /\ (weak \/ emailUsed \/ nameUsed) =>
                         /\ last'.token = NoToken
                         /\ UNCHANGED <<users, nextId, minted>>]_vars

\* A register with a strong password and a free email failed on the username.
C8_Witness ==
    /\ last.op = "register"
    /\ last.branch = "username_taken"
    /\ last.status = 400
    /\ users # <<>>

\* The access tokens clients hold resolve, before their expiry, to the
\* principal they were minted for, as long as it exists.
HeldTokensResolve(U, at) ==
    \A m \in minted :
        (/\ m.tok.purpose = "access"
         /\ at < m.tok.exp
         /\ StrInt(m.tok.sub) \in DOMAIN U) =>
            /\ get_current_user(U, m.tok, at).status = 200
            /\ get_current_user(U, m.tok, at).user = StrInt(m.tok.sub)

\* What a successful register leaves: the principal as given, logged in by
\* its username with the registered password only, and a token that resolves
\* to it.
RegisterEndToEnd ==
    \A e \in Emails, u \in Usernames, p \in Passwords :
        (last'.op = "register" /\ Register(e, u, p) /\ last'.status = 201) =>
            /\ last'.user \in DOMAIN users' \ DOMAIN users
            /\ users'[last'.user].email = e
            /\ users'[last'.user].username = u
            /\ \A q \in Passwords :
                   authenticate_user(users', u, q) = last'.user <=> q = p
            /\ \A q \in Passwords :
                   authenticate_user(users', u, q) # 0 <=> q = p
            /\ get_current_user(users', last'.token, now').status = 200
            /\ get_current_user(users', last'.token, now').user = last'.user

\* What a successful login returns: a token that resolves to the principal
\* whose password was given.
LoginEndToEnd ==
    \A i \in Idents, p \in Passwords :
        (last'.op = "login" /\ Login(i, p) /\ last'.status = 200) =>
            /\ last'.user \in DOMAIN users
            /\ verify_password(p, users[last'.user].hashed_password)
            /\ get_current_user(users', last'.token, now').status = 200
            /\ get_current_user(users', last'.token, now').user = last'.user

\* C9 as stated: after register, login with the registered username succeeds
\* with the registered password and no other, and the tokens resolve to the
\* registered principal (same id, email, username), in every later state in
\* which the principal exists; so no step changes which passwords log an
\* existing principal in, or its email or username.
C9_AsClaimed ==
    [][/\ RegisterEndToEnd
       /\ LoginEndToEnd
       /\ HeldTokensResolve(users', now')
       /\ \A id \in DOMAIN users \cap DOMAIN users' :
              /\ users'[id].email = users[id].email
              /\ users'[id].username = users[id].username
              /\ \A q \in Passwords :
                     authenticate_user(users, users[id].username, q) = id
                         <=> authenticate_user(users', users[id].username, q) = id]_vars

\* C9, amended: after register returns 201 with a token the principal has
\* the given email and username and login with that username succeeds iff
\* the password is the registered one, until a step changes the principal's
\* row (reset-password and change-password replace its credential); the
\* register token and every login token resolve, before expiry, to the
\* principal they were minted for as long as it exists.
C9_EndToEnd ==
    [][/\ RegisterEndToEnd
       /\ LoginEndToEnd
       /\ HeldTokensResolve(users', now')
       /\ \A id \in DOMAIN users \cap DOMAIN users' :
              users'[id] = users[id] =>
                  \A q \in Passwords :
                      authenticate_user(users, users[id].username, q) = id
                          <=> authenticate_user(users', users[id].username, q) = id]_vars

\* The principal of the specification's example, registered and then
\* resolved from a token it holds by GET /me.
C9_Witness ==
    /\ last.op = "me" /\ last.status = 200
    /\ last.user \in DOMAIN users
    /\ users[last.user].email = "a@x.com"
    /\ users[last.user].username = "alice"
    /\ authenticate_user(users, "alice", "Abcdef12!") = last.user
    /\ \E m \in minted : m.tok = last.tok

\* C10: a register whose pre-checks passed and whose insert then meets the
\* unique index (a concurrent register took the email or the username in
\* between) creates nothing and ends with EmailTaken or UsernameTaken,
\* status 400, not with an internal failure.
C10_RaceLoserGets400 ==
    [][\A i \in 1..MaxInflight :
           (/\ tasks[i].pc = "create"
            /\ RegisterCreate(i)
            /\ UniqueViolation(users, tasks[i].email, tasks[i].username)) =>
               /\ users' = users
               /\ last'.status = 400
               /\ last'.detail \in {"Email already registered",
                                    "Username already taken"}]_vars

\* C11: in every reachable store state, after any interleaving of register,
\* update_user, delete_user, reset-password and change-password, no two
\* principals share an email and no two principals share a username.
C11_UniqueEmailAndUsername ==
    \A i \in DOMAIN users, j \in DOMAIN users :
        i # j => /\ users[i].email # users[j].email
                 /\ users[i].username # users[j].username

\* Two principals in the store, and an update that would have given one of
\* them the other's email or username was refused by the store.
C11_Witness ==
    /\ Cardinality(DOMAIN users) = 2
    /\ last.op = "update" /\ last.status = 500 /\ last.branch = "unique"

\* C12: reset-password fails with the first violated check, in this order:
\* an invalid or expired token gives 400 "Invalid or expired reset token",
\* else no principal with the token's email gives 404 "User not found", else
\* a weak new password gives 400 with the strength message; in every failing
\* case no stored credential changes and no email is sent.
C12_ResetCheckOrder ==
    [][\A p \in Passwords, ok \in BOOLEAN :
           (last'.op = "reset" /\ ResetPassword(last'.tok, p, ok)) =>
               LET t == last'.tok
                   valid == verify_password_reset_token(t, now)
                   known == get_user_by_email(users, t.sub) # 0
                   strong == validate_password_strength(p).is_valid
               IN /\ ~valid =>
                         /\ last'.status = 400
                         /\ last'.detail = InvalidOrExpiredToken
                  /\ (valid /\ ~known) =>
                         /\ last'.status = 404
                         /\ last'.detail = "User not found"
                  /\ (valid /\ known /\ ~strong) =>
                         /\ last'.status = 400
                         /\ last'.detail = validate_password_strength(p).error_msg
                  /\ ~(valid /\ known /\ strong) =>
                         /\ users' = users
                         /\ last'.sent = NoMail
                  /\ (valid /\ known /\ strong) => last'.status \in {200, 500}]_vars

\* A reset token that verifies, for an email no principal has any more
\* (the principal was deleted or its email changed), was answered 404.
C12_Witness ==
    /\ last.op = "reset" /\ last.status = 404
    /\ last.tok.purpose = "reset" /\ last.tok.sig
    /\ get_user_by_email(users, last.tok.sub) = 0
    /\ users # <<>>

\* C13: change-password fails with the first violated check, in this order:
\* no principal with the caller's id gives 404 "User not found", else an old
\* password that does not verify against the stored digest gives 400
\* "Incorrect old password", else a weak new password gives 400 with the
\* strength message; in every failing case no stored credential changes and
\* no email is sent.
C13_ChangeCheckOrder ==
    [][\A i \in 1..MaxInflight, ok \in BOOLEAN :
           (last'.op = "change" /\ ChangePasswordFinish(i, ok)) =>
               LET id == tasks[i].user
                   found == id \in DOMAIN users
                   oldOk == found /\ verify_password(tasks[i].password,
                                                     users[id].hashed_password)
                   strong == validate_password_strength(tasks[i].new_password).is_valid
               IN /\ ~found =>
                         /\ last'.status = 404
                         /\ last'.detail = "User not found"
                  /\ (found /\ ~oldOk) =>
                         /\ last'.status = 400
                         /\ last'.detail = "Incorrect old password"
                  /\ (found /\ oldOk /\ ~strong) =>
                         /\ last'.status = 400
                         /\ last'.detail =
                                validate_password_strength(tasks[i].new_password).error_msg
                  /\ ~(found /\ oldOk /\ strong) =>
                         /\ users' = users
                         /\ last'.sent = NoMail
                  /\ (found /\ oldOk /\ strong) => last'.status \in {200, 500}]_vars

\* A caller the guard admitted was deleted before the service looked it up,
\* and change-password answered 404.
C13_Witness ==
    /\ last.op = "change" /\ last.status = 404
    /\ last.tok.purpose = "access" /\ last.tok.sig
    /\ StrInt(last.tok.sub) \notin DOMAIN users

\* C14: when the confirmation email of reset-password or change-password
\* cannot be sent, the password change stays: the principal's stored
\* credential is the hash of the new password and a login as that principal
\* with the new password succeeds.
C14_MailFailureKeepsChange ==
    [][/\ \A p \in Passwords :
              (/\ last'.op = "reset"
               /\ reset_password(users, last'.tok, p, now).error = ""
               /\ ResetPassword(last'.tok, p, FALSE)) =>
                  LET id == get_user_by_email(users, last'.tok.sub)
                  IN /\ id \in DOMAIN users'
                     /\ users'[id].hashed_password = get_password_hash(p)
                     /\ authenticate_user(users', users'[id].username, p) = id
       /\ \A o \in Passwords, p \in Passwords :
              (/\ last'.op = "change"
               /\ get_current_user(users, last'.tok, now).status = 200
               /\ change_password(users, get_current_user(users, last'.tok, now).user,
                                  o, p).error = ""
               /\ ChangePassword(last'.tok, o, p, FALSE)) =>
                  LET id == get_current_user(users, last'.tok, now).user
                  IN /\ id \in DOMAIN users'
                     /\ users'[id].hashed_password = get_password_hash(p)
                     /\ authenticate_user(users', users'[id].username, p) = id]_vars

\* A change-password whose confirmation mail failed, after which the caller
\* logs in with the new password and not with the registered one.
C14_Witness ==
    /\ last.op = "change" /\ last.branch = "send_failed"
    /\ last.sent # NoMail
    /\ last.user \in DOMAIN users
    /\ authenticate_user(users, users[last.user].username, "TestPass123!") = last.user
    /\ authenticate_user(users, users[last.user].username, "Abcdef12!") = 0

\* C15: when every check of reset-password or change-password passes and
\* the credential is persisted, the request returns 200 with its success
\* message whether or not the confirmation mail can be sent.
C15_MailFailureNotSurfaced ==
    [][/\ \A p \in Passwords, ok \in BOOLEAN :
              (/\ last'.op = "reset"
               /\ reset_password(users, last'.tok, p, now).error = ""
               /\ ResetPassword(last'.tok, p, ok)) =>
                  /\ last'.status = 200
                  /\ last'.detail = "Password has been reset successfully"
       /\ \A o \in Passwords, p \in Passwords, ok \in BOOLEAN :
              (/\ last'.op = "change"
               /\ get_current_user(users, last'.tok, now).status = 200
               /\ change_password(users, get_current_user(users, last'.tok, now).user,
                                  o, p).error = ""
               /\ ChangePassword(last'.tok, o, p, ok)) =>
                  /\ last'.status = 200
                  /\ last'.detail = "Password has been changed successfully"]_vars

\* C16: after a successful reset-password or change-password for principal
\* P with new password n, login as P (by its username) succeeds with n and
\* fails with every other password, the previous one included, and this
\* stays so in every step that leaves P's credential as it is.
C16_NewPasswordOnly ==
    [][/\ \A p \in Passwords :
              (/\ last'.op = "reset" /\ last'.status = 200
               /\ ResetPassword(last'.tok, p, TRUE)) =>
                  \A q \in Passwords :
                      /\ authenticate_user(users', users'[last'.user].username, q)
                             = last'.user <=> q = p
                      /\ authenticate_user(users', users'[last'.user].username, q)
                             # 0 <=> q = p
       /\ \A o \in Passwords, p \in Passwords :
              (/\ last'.op = "change" /\ last'.status = 200
               /\ ChangePassword(last'.tok, o, p, TRUE)) =>
                  \A q \in Passwords :
                      /\ authenticate_user(users', users'[last'.user].username, q)
                             = last'.user <=> q = p
                      /\ authenticate_user(users', users'[last'.user].username, q)
                             # 0 <=> q = p
       /\ \A id \in DOMAIN users \cap DOMAIN users' :
              users'[id].hashed_password = users[id].hashed_password =>
                  \A q \in Passwords :
                      authenticate_user(users, users[id].username, q) = id
                          <=> authenticate_user(users', users'[id].username, q) = id]_vars

\* A principal registered with one password reset it to another: the new
\* one logs in, the registered one no longer does.
C16_Witness ==
    /\ last.op = "reset" /\ last.status = 200
    /\ last.user \in DOMAIN users
    /\ authenticate_user(users, users[last.user].username, "Abcdef12!") = last.user
    /\ authenticate_user(users, users[last.user].username, "TestPass123!") = 0

\* C17: a reset token is not single-use: a reset token minted by
\* forgot-password for the email of an existing principal is accepted by
\* reset-password, with a strong new password, every time it is presented
\* before its expiry, also when the preceding request already reset the
\* password with it, and each use sets the credential to the password given.
C17_ResetTokenReusable ==
    [][\A p \in StrongPasswords, ok \in BOOLEAN :
           (/\ last'.op = "reset"
            /\ \E m \in minted : m.tok = last'.tok /\ m.tok.purpose = "reset"
            /\ now < last'.tok.exp
            /\ get_user_by_email(users, last'.tok.sub) # 0
            /\ ResetPassword(last'.tok, p, ok)) =>
               /\ last'.status = IF ok THEN 200 ELSE 500
               /\ last'.user = get_user_by_email(users, last'.tok.sub)
               /\ users'[last'.user].hashed_password = get_password_hash(p)]_vars

\* A held reset token accepted a second time, right after the reset it had
\* already been used for.
C17_Witness ==
    /\ last.op = "reset" /\ last.status = 200 /\ last.replay
    /\ \E m \in minted : m.tok = last.tok
    /\ last.user \in DOMAIN users

\* C18: access tokens are never revoked by the server: in every reachable
\* state, whatever logins, change-password, reset-password and update_user
\* requests came after its minting, an access token clients hold that has
\* not expired and whose principal exists is accepted by the request guard
\* and resolves to that principal.
C18_NeverRevoked ==
    \A m \in minted :
        m.tok.purpose = "access" =>
            LET P == StrInt(m.tok.sub)
                g == get_current_user(users, m.tok, now)
            IN (now < m.tok.exp /\ P \in DOMAIN users) =>
                   (g.status = 200 /\ g.user = P)

\* A principal holds an unexpired access token and its row has just been
\* updated by an administrator; the guard still accepts the token.
C18_Witness ==
    /\ last.op = "update" /\ last.status = 200
    /\ \E m \in minted :
           /\ m.tok.purpose = "access"
           /\ StrInt(m.tok.sub) = last.user
           /\ now < m.tok.exp
           /\ get_current_user(users, m.tok, now).status = 200
           /\ users[last.user].hashed_password = get_password_hash("TestPass123!")

\* C19: once a principal has been deleted, every later request carrying an
\* access token minted for it is rejected by the request guard with 401: a
\* held access token minted at an earlier instant that the guard rejects
\* (tokens are minted for existing principals only, so its principal was
\* deleted, or it expired) is rejected after every further step as well.
C19_DeletedStaysRejected ==
    [][\A m \in minted \cap minted' :
           (/\ m.tok.purpose = "access"
            /\ m.at < now
            /\ get_current_user(users, m.tok, now).status = 401) =>
               get_current_user(users', m.tok, now').status = 401]_vars

\* C20: a guarded request whose token is missing, invalid, expired or names
\* no existing principal gets 401 and never 403, whatever the endpoint
\* requires; 403 is returned only to a request that resolved to an existing
\* principal which then failed the permission or role check.
C20_UnauthenticatedNeverForbidden ==
    [][(last' # last /\ last'.op \in {"permission", "role"}) =>
           LET g == get_current_user(users, last'.tok, now)
           IN /\ g.status # 200 => last'.status = 401
              /\ last'.status = 403 =>
                     /\ g.status = 200
                     /\ last'.user = g.user
                     /\ last'.branch \in {"no_role", "missing_permission",
                                          "role_not_allowed"}]_vars

\* C21: every operation that sets a credential (register, reset-password,
\* change-password, and update_user when its body carries a password)
\* validates the new password's strength first, so in every reachable state
\* every stored credential is the hash of a password that passes the
\* strength policy.
C21_StoredCredentialsStrong ==
    \A id \in DOMAIN users :
        \E p \in StrongPasswords : users[id].hashed_password = get_password_hash(p)

\* Why a token presented where one of the given purpose is expected fails
\* verification: its signature is not the server's, it has expired, it does
\* not decode at all, or it was minted for the other purpose.
VerificationFailures(token, purpose, at) ==
    {k \in {"bad_signature", "expired", "malformed", "wrong_purpose"} :
        \/ k = "bad_signature" /\ ~token.sig
        \/ k = "expired" /\ token.sig /\ token.exp <= at
        \/ k = "malformed" /\ token.purpose = "garbled"
        \/ k = "wrong_purpose" /\ token.purpose # purpose}

\* C22: token verification failures are indistinguishable to the caller:
\* whichever of bad signature, expiry, malformed encoding and wrong purpose
\* makes a bearer token fail, the request guard answers the same 401 with
\* the same detail and header, and whichever makes a reset token fail,
\* reset-password answers the same 400 "Invalid or expired reset token",
\* whoever is registered; nothing in the store changes.
C22_FailuresIndistinguishable ==
    [][/\ (/\ last'.op = "me"
            /\ VerificationFailures(last'.tok, "access", now) # {}
            /\ Me(last'.tok)) =>
               /\ Visible(last') = [status |-> 401,
                                    detail |-> "Could not validate credentials",
                                    www |-> TRUE, token |-> NoToken]
               /\ users' = users
       /\ \A p \in Passwords, ok \in BOOLEAN :
              (/\ last'.op = "reset"
               /\ VerificationFailures(last'.tok, "reset", now) # {}
               /\ ResetPassword(last'.tok, p, ok)) =>
                  /\ Visible(last') = [status |-> 400,
                                       detail |-> InvalidOrExpiredToken,
                                       www |-> FALSE, token |-> NoToken]
                  /\ last'.sent = NoMail
                  /\ users' = users]_vars

\* A correctly signed reset token of a registered email, presented after its
\* expiry with a strong password, got the answer a forged one gets.
C22_Witness ==
    /\ last.op = "reset" /\ last.branch = "bad_token"
    /\ VerificationFailures(last.tok, "reset", now) = {"expired"}
    /\ get_user_by_email(users, last.tok.sub) # 0
    /\ last.status = 400 /\ last.detail = InvalidOrExpiredToken

\* C23: an unexpected failure of the store during any auth endpoint,
\* forgot-password included, is not recovered locally: the caller gets the
\* generic 500 "Internal server error" and no internal detail.
C23_StoreFailureSurfaces ==
    [][/\ \A p \in StrongPasswords :
              (last'.op = "register" /\ RegisterUnreachable("a@x.com", "alice", p)) =>
                  Visible(last') = [status |-> 500, detail |-> "Internal server error",
                                    www |-> FALSE, token |-> NoToken]
       /\ (last'.op = "login" /\ LoginUnreachable("alice", "Abcdef12!")) =>
              Visible(last') = [status |-> 500, detail |-> "Internal server error",
                                www |-> FALSE, token |-> NoToken]
       /\ \A op \in {"me", "change"} :
              (/\ last'.op = op
               /\ get_current_user(users, last'.tok, now).detail
                      # "Could not validate credentials"
               /\ GuardUnreachable(op, last'.tok)) =>
                  Visible(last') = [status |-> 500, detail |-> "Internal server error",
                                    www |-> FALSE, token |-> NoToken]
       /\ (/\ last'.op = "reset"
           /\ verify_password_reset_token(last'.tok, now)
           /\ ResetPasswordUnreachable(last'.tok, "TestPass123!")) =>
              Visible(last') = [status |-> 500, detail |-> "Internal server error",
                                www |-> FALSE, token |-> NoToken]
       /\ \A e \in Emails :
              (last'.op = "forgot" /\ ForgotPasswordUnreachable(e)) =>
                  Visible(last') = [status |-> 500, detail |-> "Internal server error",
                                    www |-> FALSE, token |-> NoToken]]_vars

\* C24: the health endpoint always answers 200 with status "healthy",
\* whether or not the store is reachable; its database field is "connected"
\* iff the probe query succeeded and "disconnected" otherwise; it changes
\* nothing in the store.
C24_HealthAlwaysHealthy ==
    [][\A probeOk \in BOOLEAN :
           (last'.op = "health" /\ Health(probeOk)) =>
               /\ last'.status = 200
               /\ last'.detail = "healthy"
               /\ last'.branch = (IF probeOk THEN "connected" ELSE "disconnected")
               /\ UNCHANGED <<users, nextId, minted>>]_vars

\* The health endpoint answered 200 "healthy" with the store down, principals
\* being registered.
C24_Witness ==
    /\ last.op = "health" /\ last.status = 200 /\ last.detail = "healthy"
    /\ last.branch = "disconnected"
    /\ users # <<>>

\* The store differs from U only in the credential of principal id.
OnlyCredentialOf(id, U, V) ==
    /\ DOMAIN V = DOMAIN U
    /\ id \in DOMAIN U
    /\ V = [U EXCEPT ![id].hashed_password = V[id].hashed_password]

\* C25: a successful register creates exactly one principal and changes no
\* other; a successful reset-password or change-password changes the
\* credential of exactly one principal (the one with the token's email,
\* respectively the caller) and nothing else of it or of any other; login,
\* /me, forgot-password and every failed request leave the whole store
\* unchanged.
C25_FrameEffects ==
    [][now' = now =>
          /\ (last'.op = "register" /\ last'.status = 201) =>
                 /\ last'.user \notin DOMAIN users
                 /\ DOMAIN users' = DOMAIN users \cup {last'.user}
                 /\ \A id \in DOMAIN users : users'[id] = users[id]
          /\ (last'.op = "reset" /\ last'.status = 200) =>
                 OnlyCredentialOf(get_user_by_email(users, last'.tok.sub), users, users')
          /\ (last'.op = "change" /\ last'.status = 200) =>
                 OnlyCredentialOf(get_current_user(users, last'.tok, now).user,
                                  users, users')
          /\ last'.op \in {"login", "me", "forgot"} => users' = users
          /\ last'.status \notin {200, 201} => users' = users]_vars

\* The permission names of the role a principal has in store U (none when
\* its role_id points at no role).
PermissionsInStore(U, id) ==
    IF U[id].role_id \in DOMAIN Roles THEN Roles[U[id].role_id].permissions ELSE {}

\* C26: authorization reflects the store at request time: a request that
\* passes the guard is admitted by the permission check iff the required
\* name is among the permission names of the role the principal has in the
\* store when the request is processed; so after update_user changed a
\* principal's role the next request with the same unexpired token is
\* decided by the new role only, and no principal has grants of its own.
C26_AuthorizationFollowsStore ==
    [][(/\ now' = now
        /\ last'.op \in {"update", "delete"}
        /\ get_current_user(users, last'.tok, now).status = 200) =>
           LET caller == get_current_user(users, last'.tok, now).user
               required == IF last'.op = "update" THEN "update_user" ELSE "delete_user"
           IN /\ last'.status # 403 <=>
                     required \in PermissionsInStore(users, caller)
              /\ last'.status = 403 => users' = users
              /\ last'.status \in {200, 204, 403, 404, 500}]_vars

\* The first principal, an administrator made a moderator by update_user,
\* was refused a delete with a token that is still accepted: the moderator
\* role holds no delete_user.
C26_Witness ==
    /\ last.op = "delete" /\ last.status = 403
    /\ last.detail = "Permission 'delete_user' required"
    /\ last.user = 1 /\ 1 \in DOMAIN users
    /\ users[1].email = DEFAULT_ADMIN_EMAIL
    /\ users[1].role_id = 3
    /\ get_current_user(users, last.tok, now).status = 200

\* C27: a principal whose role is the seeded admin role passes the
\* permission guard of every PermissionChecker-guarded endpoint (users, rbac
\* and mail routers): every permission name some endpoint requires is in the
\* admin role's seeded permission set.
C27_AdminPassesEveryEndpoint ==
    [][\A p \in EndpointPermissions :
           (/\ last'.op = "permission"
            /\ get_current_user(users, last'.tok, now).status = 200
            /\ HasRole(users, get_current_user(users, last'.tok, now).user)
            /\ Roles[users[get_current_user(users, last'.tok, now).user].role_id].name
                   = "admin"
            /\ RequirePermission(last'.tok, <<p>>)) =>
               last'.status = 200]_vars

\* C28: every registered principal can log in with its own email and its
\* correct password, whatever other principals exist: login resolves the
\* identifier by username first and by email only if no username matches,
\* and a login with a principal's email and password is answered 200 with a
\* token for that principal.
C28_LoginByOwnEmail ==
    [][\A i \in Idents, p \in Passwords :
           (last'.op = "login" /\ Login(i, p)) =>
               \A id \in DOMAIN users :
                   (/\ users[id].email = i
                    /\ verify_password(p, users[id].hashed_password)) =>
                       /\ last'.status = 200
                       /\ last'.user = id
                       /\ last'.token = create_access_token(id, now)]_vars

\* C29: a reset token issued by forgot-password for principal P only ever
\* changes P's credential: whatever happened between minting and use
\* (update_user changing an email, delete_user, a later register with the
\* same email), a reset-password with that token changes the credential of
\* no principal other than P.
C29_ResetTokenBoundToPrincipal ==
    [][\A m \in minted :
           (/\ m.tok.purpose = "reset"
            /\ now' = now
            /\ last'.op = "reset"
            /\ last'.tok = m.tok) =>
               \A id \in DOMAIN users \cap DOMAIN users' :
                   users'[id].hashed_password # users[id].hashed_password =>
                       id = m.user]_vars

\* C30: no privilege escalation through the self-service flows: a principal
\* created by register has the default role (role id 2, the seeded "user"
\* role, which holds read_user only), and no sequence of register, login,
\* forgot-password, reset-password and change-password requests changes a
\* principal's role, touches the administrator's row, or lets such a
\* principal pass a guard that requires update_user, delete_user or
\* manage_roles (every such attempt is answered 401 or 403 and changes
\* nothing).
C30_NoPrivilegeEscalation ==
    /\ Roles[2].name = "user" /\ Roles[2].permissions = {"read_user"}
    /\ 1 \in DOMAIN users /\ users[1] = SeededAdmin
    /\ \A id \in DOMAIN users \ {1} : users[id].role_id = 2
    /\ \A m \in minted : m.user # 1
    /\ last.op \in {"update", "delete", "permission"} =>
           /\ last.status \in {401, 403}
           /\ last.user # 0 => last.status = 403

\* A registered principal that has since replaced its password was refused
\* the update that would have given it the admin role.
C30_Witness ==
    /\ last.op = "update" /\ last.status = 403
    /\ last.detail = "Permission 'update_user' required"
    /\ last.user \in DOMAIN users \ {1}
    /\ users[last.user].hashed_password = get_password_hash("Abcdef12!")
    /\ users[last.user].role_id = 2

====
